---- MODULE Spec2Model ----
(***************************************************************************)
(* Model of lazy.cc: the future cell Lazy<int> (class Lazy / Lazy::Impl),  *)
(* its binary composition operator+, the Wait barrier and the coroutine    *)
(* (__async_wait, START_COROUTINE_AND_RUN_ONCE).                           *)
(*                                                                         *)
(* A cell is a natural number (the Impl object behind the shared_ptr);     *)
(* handles are not modelled, only the cells they point to.  A callback is  *)
(* a record: what boost::bind bound.  boost::signals2 is modelled by what  *)
(* lazy.cc relies on: connect appends a slot at the back, an invocation    *)
(* calls the slots that were connected when it started, in that order,     *)
(* with the argument evaluated once at the call.                           *)
(*                                                                         *)
(* Every public operation is one action; the synchronous cascade of        *)
(* callbacks it triggers is computed by the recursive operators below on   *)
(* a record of the whole program state.  The coroutine part (SpecCo) needs *)
(* the position of the driver and of the routine inside such a cascade, so *)
(* there a signal invocation advances one slot per step and a saved        *)
(* ucontext_t is a value naming the frame it was saved in.                 *)
(***************************************************************************)
EXTENDS Integers, Sequences, FiniteSets, TLC

\* ---- bounds of the model
MaxCells == 4      \* cells ever constructed
MaxSteps == 3      \* public operations in one run of Spec
MaxWaitSteps == 5  \* public operations in one run of SpecWait
MaxCoSteps == 3    \* statements on cells the driver performs in one run of SpecCo
MaxReentries == 1  \* times one run of SpecCo goes on after entering a stale context

Cells == 1..MaxCells
Values == {1, 2}   \* the values given to Lazy(value) and operator=
Globals == {1, 2}  \* the cells of the global handles a and b (lazy.cc:240)
CoValues == {5, 10}  \* the values main assigns in the driver block (lazy.cc:256-257)
\* the routines run as coroutine_function: the cells awaited, in order
Routines == {<<>>, <<1>>, <<1, 2>>, <<1, 1>>, <<1, 2, 1>>}

\* enum State (lazy.cc:20-25)
LAZY_NOT_READY == "LAZY_NOT_READY"
LAZY_READY == "LAZY_READY"
LAZY_FAIL == "LAZY_FAIL"

VARIABLES
    ncells,            \* number of Impl objects constructed so far
    state_,            \* Impl::state_ of each cell
    value_,            \* Impl::value_ of each cell
    ready_callbacks_,  \* Impl::ready_callbacks_: the connected slots, in order
    fail_callbacks_,   \* Impl::fail_callbacks_
    counter_,          \* Wait::counter_
    jobs_,             \* Wait::jobs_
    aborted,           \* an assert failed, or the program trapped
    hist,              \* history of the run (observation only, never read by the code)
    last,              \* the operation just performed and what it invoked
    steps,             \* operations the run may still perform
    routine,           \* the coroutine function: the cells it awaits, in order
    ctl,               \* where the driver (main) and the routine are
    main_context,      \* ucontext_t main_context (lazy.cc:191)
    coroutine_context, \* ucontext_t coroutine_context
    return_context,    \* ucontext_t return_context
    coroutine_finished,\* volatile int coroutine_finished (lazy.cc:219)
    cohist             \* history of the handoffs (observation only)

covars == <<routine, ctl, main_context, coroutine_context, return_context,
            coroutine_finished, cohist>>

vars == <<ncells, state_, value_, ready_callbacks_, fail_callbacks_,
          counter_, jobs_, aborted, hist, last, steps, covars>>

\* ---- callbacks: what boost::bind captured
UserCb == [kind |-> "user", r |-> 0, b |-> 0]
Step1Cb(r, b) == [kind |-> "step1", r |-> r, b |-> b]
Step2Cb(r) == [kind |-> "step2", r |-> r, b |-> 0]
OneReadyCb == [kind |-> "one_ready", r |-> 0, b |-> 0]
AsyncContinueCb == [kind |-> "async_continue", r |-> 0, b |-> 0]

\* ---- the program state as one record, for the callback cascade
Pack ==
    [state_ |-> state_, value_ |-> value_,
     ready_callbacks_ |-> ready_callbacks_, fail_callbacks_ |-> fail_callbacks_,
     counter_ |-> counter_, jobs_ |-> jobs_,
     hist |-> hist, trace |-> <<>>, ems |-> <<>>]

\* one invocation of a slot or a job, as observed
Call(sig, cell, pos, val, em, nr) ==
    [sig |-> sig, cell |-> cell, pos |-> pos, val |-> val, em |-> em, nr |-> nr]

\* the history kept of each cell
NoteCall(s, sig, c, pos) ==
    IF sig = "ready"
    THEN [s.hist EXCEPT !.rcalls[c][pos] = @ + 1]
    ELSE [s.hist EXCEPT !.fcalls[c][pos] = @ + 1]

RECURSIVE Impl_emit_ready(_, _)
RECURSIVE Impl_on_ready(_, _, _)
RECURSIVE InvokeReady(_, _, _, _, _, _)
RECURSIVE FireReadyFrom(_, _, _, _, _, _)
RECURSIVE FireReadyDownFrom(_, _, _, _, _, _)

\* the jobs i.. of jobs_ are called in order; a job only records that it ran,
\* and which watched futures had not become Ready at that moment
RunJobsFrom(s, i) ==
    LET nr == {f \in s.hist.watched : ~s.hist.everReady[f]}
        n == Len(s.jobs_)
        new == [k \in 1..(n - i + 1) |-> Call("job", 0, i + k - 1, 0, 0, nr)]
    IN  [s EXCEPT !.trace = @ \o new,
                  !.hist.jobruns = [j \in 1..n |-> IF j >= i THEN @[j] + 1 ELSE @[j]]]

\* Wait::one_ready (lazy.cc:176-188)
one_ready(s) ==
    LET s1 == [s EXCEPT !.counter_ = @ - 1]
    IN  IF s1.counter_ = 0 THEN RunJobsFrom(s1, 1) ELSE s1

\* faulty variant of operator_plus_step2: stores b instead of adding it
operator_plus_step2_store(s, r, b) ==
    Impl_emit_ready([s EXCEPT !.value_[r] = b], r)

\* Impl::operator_plus_step2 (lazy.cc:72-76), `this` = r
operator_plus_step2(s, r, b) ==
    Impl_emit_ready([s EXCEPT !.value_[r] = @ + b], r)

\* Impl::operator_plus_step1 (lazy.cc:78-82), `this` = r
operator_plus_step1(s, r, a, b) ==
    Impl_on_ready([s EXCEPT !.value_[r] = a, !.hist.begun[r] = @ + 1],
                  b, Step2Cb(r))

\* the call of one connected slot with argument v
InvokeReady(s, c, pos, cb, v, em) ==
    LET s1 == [s EXCEPT !.trace = Append(@, Call("ready", c, pos, v, em, {})),
                        !.hist = NoteCall(s, "ready", c, pos)]
    IN  CASE cb.kind = "user" -> s1
          [] cb.kind = "step1" -> operator_plus_step1(s1, cb.r, v, cb.b)
          [] cb.kind = "step2" -> operator_plus_step2(s1, cb.r, v)
          [] cb.kind = "one_ready" -> one_ready(s1)

\* signal::operator(): the slots of the snapshot, front to back
FireReadyFrom(s, c, snap, i, v, em) ==
    IF i > Len(snap) THEN s
    ELSE FireReadyFrom(InvokeReady(s, c, i, snap[i], v, em), c, snap, i + 1, v, em)

\* faulty variant of FireReady: the slots are called back to front
FireReadyDownFrom(s, c, snap, i, v, em) ==
    IF i < 1 THEN s
    ELSE FireReadyDownFrom(InvokeReady(s, c, i, snap[i], v, em), c, snap, i - 1, v, em)

FireReadyBackToFront(s, c, snap, v, em) == FireReadyDownFrom(s, c, snap, Len(snap), v, em)

\* ready_callbacks_(value_) (lazy.cc:63)
FireReady(s, c, snap, v, em) == FireReadyFrom(s, c, snap, 1, v, em)

\* Impl::emit_ready (lazy.cc:60-64)
Impl_emit_ready(s, c) ==
    LET em == Len(s.ems) + 1
        snap == s.ready_callbacks_[c]
        s1 == [s EXCEPT !.state_[c] = LAZY_READY,
                        !.ems = Append(@, [cell |-> c, sig |-> "ready", snap |-> snap]),
                        !.hist.emits[c] = @ + 1,
                        !.hist.everReady[c] = TRUE,
                        !.hist.resolved[c] = s.value_[c]]
    IN  FireReady(s1, c, snap, s1.value_[c], em)

\* Impl::on_ready (lazy.cc:42-49)
Impl_on_ready(s, c, cb) ==
    LET s1 == [s EXCEPT !.ready_callbacks_[c] = Append(@, cb),
                        !.hist.rcalls[c] = Append(@, 0),
                        !.hist.regReady[c] = Append(@, s.state_[c])]
    IN  IF s1.state_[c] = LAZY_READY
        THEN InvokeReady(s1, c, Len(s1.ready_callbacks_[c]), cb, s1.value_[c], 0)
        ELSE s1

\* fail_callbacks_(): the slots of the snapshot, front to back.  The fail slots
\* are user callbacks only: they record that they ran
FireFail(s, c, snap, em) ==
    LET n == Len(snap)
        new == [k \in 1..n |-> Call("fail", c, k, 0, em, {})]
    IN  [s EXCEPT !.trace = @ \o new,
                  !.hist.fcalls[c] = [j \in 1..Len(@) |->
                                         IF j <= n THEN @[j] + 1 ELSE @[j]]]

\* Impl::emit_fail (lazy.cc:66-70).  Line 68 writes p_impl_->state_ inside Impl,
\* which has no p_impl_; it is modelled as the assignment state_ = LAZY_FAIL
\* that the line stands for.
Impl_emit_fail(s, c) ==
    LET em == Len(s.ems) + 1
        snap == s.fail_callbacks_[c]
        s1 == [s EXCEPT !.state_[c] = LAZY_FAIL,
                        !.ems = Append(@, [cell |-> c, sig |-> "fail", snap |-> snap]),
                        !.hist.emits[c] = @ + 1,
                        !.hist.failedPending[c] = @ \/ s.state_[c] = LAZY_NOT_READY]
    IN  FireFail(s1, c, snap, em)

\* Impl::on_fail (lazy.cc:51-58)
Impl_on_fail(s, c) ==
    LET s1 == [s EXCEPT !.fail_callbacks_[c] = Append(@, UserCb),
                        !.hist.fcalls[c] = Append(@, 0),
                        !.hist.regFail[c] = Append(@, s.state_[c])]
        n == Len(s1.fail_callbacks_[c])
    IN  IF s1.state_[c] = LAZY_FAIL
        THEN [s1 EXCEPT !.trace = Append(@, Call("fail", c, n, 0, 0, {})),
                        !.hist.fcalls[c][n] = @ + 1]
        ELSE s1

\* ---- initial state: the global cells after Lazy() (lazy.cc:36-40, 86-89, 240)
NoLast == [op |-> "none", cell |-> 0, arg |-> 0, rejected |-> FALSE, ret |-> 0,
           trace |-> <<>>, ems |-> <<>>]

CellInit(budget) ==
    /\ ncells = Cardinality(Globals)
    /\ state_ = [c \in Cells |-> LAZY_NOT_READY]
    /\ value_ = [c \in Cells |-> 0]
    /\ ready_callbacks_ = [c \in Cells |-> <<>>]
    /\ fail_callbacks_ = [c \in Cells |-> <<>>]
    /\ counter_ = 0
    /\ jobs_ = <<>>
    /\ aborted = FALSE
    /\ hist = [emits |-> [c \in Cells |-> 0],
               direct |-> [c \in Cells |-> 0],
               begun |-> [c \in Cells |-> 0],
               everReady |-> [c \in Cells |-> FALSE],
               failedPending |-> [c \in Cells |-> FALSE],
               resolved |-> [c \in Cells |-> 0],
               rcalls |-> [c \in Cells |-> <<>>],
               fcalls |-> [c \in Cells |-> <<>>],
               regReady |-> [c \in Cells |-> <<>>],
               regFail |-> [c \in Cells |-> <<>>],
               plus |-> [c \in Cells |-> <<>>],
               watched |-> {},
               jobruns |-> <<>>]
    /\ last = NoLast
    /\ steps = budget

\* ---- saved contexts: where execution goes on when the context is activated
NoContext == [at |-> "none", side |-> "none", k |-> 0, n |-> 0]
\* makecontext(&coroutine_context, coroutine_function, 0) (lazy.cc:227)
EntryContext == [at |-> "entry", side |-> "routine", k |-> 0, n |-> 0]
\* saved by swapcontext in call number n of __do_async_wait, the routine's
\* k-th await (lazy.cc:209)
WaitContext(k, n) == [at |-> "wait", side |-> "routine", k |-> k, n |-> n]
\* saved by getcontext(&return_context) in main (lazy.cc:229)
ReturnContext == [at |-> "return", side |-> "driver", k |-> 0, n |-> 0]
\* saved by swapcontext in the condition of the macro's if (lazy.cc:232)
IfContext == [at |-> "if", side |-> "driver", k |-> 0, n |-> 0]
\* saved by swapcontext in __async_continue (lazy.cc:199), called on the main
\* stack from slot k of the running signal invocation, or on the routine's
\* stack from on_ready inside its k-th await
ContinueContext(side, k) == [at |-> "continue", side |-> side, k |-> k, n |-> 0]

\* no signal invocation is running on the main stack
NoEmit == [cell |-> 0, snap |-> <<>>, i |-> 0, v |-> 0, incont |-> FALSE]
NoXfer == [via |-> "none", from |-> "none", live |-> TRUE, rat |-> "idle",
           cell |-> 0, awaited |-> 0, dropped |-> 0]

\* before main reaches START_COROUTINE_AND_RUN_ONCE (lazy.cc:191, 251-254)
CoInit ==
    /\ ctl = [active |-> "driver", dpc |-> "pre", emit |-> NoEmit,
              rk |-> 0, rat |-> "idle", got |-> <<>>]
    /\ main_context = NoContext
    /\ coroutine_context = NoContext
    /\ return_context = NoContext
    /\ coroutine_finished = 0
    /\ cohist = [xfer |-> NoXfer, blocks |-> 0, suspends |-> 0, resumes |-> 0,
                 calls |-> <<>>, ops |-> <<>>, reentries |-> 0, first |-> "none"]

InitFor(budget) == CellInit(budget) /\ CoInit /\ routine = <<>>

Init == InitFor(MaxSteps)

InitWait == InitFor(MaxWaitSteps)

\* the state after an operation whose cascade ended in record s
Commit(s, op, c, arg, ret) ==
    /\ state_' = s.state_
    /\ value_' = s.value_
    /\ ready_callbacks_' = s.ready_callbacks_
    /\ fail_callbacks_' = s.fail_callbacks_
    /\ counter_' = s.counter_
    /\ jobs_' = s.jobs_
    /\ hist' = s.hist
    /\ last' = [op |-> op, cell |-> c, arg |-> arg, rejected |-> FALSE, ret |-> ret,
                trace |-> s.trace, ems |-> s.ems]
    /\ steps' = steps - 1
    /\ UNCHANGED covars

\* a failed assert (asserts are compiled in): the program aborts, nothing else
\* happens
Reject(op, c, arg) ==
    /\ aborted' = TRUE
    /\ last' = [op |-> op, cell |-> c, arg |-> arg, rejected |-> TRUE, ret |-> 0,
                trace |-> <<>>, ems |-> <<>>]
    /\ steps' = steps - 1
    /\ UNCHANGED <<ncells, state_, value_, ready_callbacks_, fail_callbacks_,
                   counter_, jobs_, hist, covars>>

\* the program has not aborted (and the run may go on)
Running == ~aborted /\ steps > 0
Live == 1..ncells

Direct(s, c) == [s EXCEPT !.hist.direct[c] = @ + 1]

\* Lazy() (lazy.cc:86-89)
New ==
    /\ Running /\ ncells < MaxCells
    /\ ncells' = ncells + 1
    /\ Commit(Pack, "new", ncells + 1, 0, 0)
    /\ UNCHANGED aborted

\* Lazy(const T& value) (lazy.cc:91-96)
NewValue(v) ==
    /\ Running /\ ncells < MaxCells
    /\ ncells' = ncells + 1
    /\ LET c == ncells + 1
           s == [Pack EXCEPT !.value_[c] = v]
       IN  Commit(Impl_emit_ready(Direct(s, c), c), "new_value", c, v, 0)
    /\ UNCHANGED aborted

\* Lazy::get (lazy.cc:98-102): what a call of get() on cell c does now
Lazy_get(c) ==
    IF state_[c] = LAZY_READY
    THEN [rejected |-> FALSE, ret |-> value_[c]]
    ELSE [rejected |-> TRUE, ret |-> 0]

\* a call of Lazy::get
Get(c) ==
    /\ Running /\ c \in Live
    /\ IF Lazy_get(c).rejected
       THEN Reject("get", c, 0)
       ELSE Commit(Pack, "get", c, 0, Lazy_get(c).ret) /\ UNCHANGED <<ncells, aborted>>

\* Lazy::on_ready (lazy.cc:104-107) with a user callback
OnReady(c) ==
    /\ Running /\ c \in Live
    /\ Commit(Impl_on_ready(Pack, c, UserCb), "on_ready", c, 0, 0)
    /\ UNCHANGED <<ncells, aborted>>

\* Lazy::on_fail (lazy.cc:109-112) with a user callback
OnFail(c) ==
    /\ Running /\ c \in Live
    /\ Commit(Impl_on_fail(Pack, c), "on_fail", c, 0, 0)
    /\ UNCHANGED <<ncells, aborted>>

\* Lazy::emit_ready (lazy.cc:114-117)
EmitReady(c) ==
    /\ Running /\ c \in Live
    /\ Commit(Impl_emit_ready(Direct(Pack, c), c), "emit_ready", c, 0, 0)
    /\ UNCHANGED <<ncells, aborted>>

\* Lazy::emit_fail (lazy.cc:119-122)
EmitFail(c) ==
    /\ Running /\ c \in Live
    /\ Commit(Impl_emit_fail(Direct(Pack, c), c), "emit_fail", c, 0, 0)
    /\ UNCHANGED <<ncells, aborted>>

\* Lazy::operator=(const T&) (lazy.cc:124-131)
Assign(c, v) ==
    /\ Running /\ c \in Live
    /\ IF state_[c] = LAZY_NOT_READY
       THEN /\ Commit(Impl_emit_ready(Direct([Pack EXCEPT !.value_[c] = v], c), c),
                      "assign", c, v, 0)
            /\ UNCHANGED <<ncells, aborted>>
       ELSE Reject("assign", c, v)

\* Lazy::operator+ (lazy.cc:133-138): result is a new cell
Plus(a, b) ==
    /\ Running /\ ncells < MaxCells
    /\ a \in Live /\ b \in Live
    /\ ncells' = ncells + 1
    /\ LET r == ncells + 1
           s == [Pack EXCEPT !.hist.plus[r] = <<a, b>>]
       IN  Commit(Impl_on_ready(s, a, Step1Cb(r, b)), "plus", r, 0, 0)
    /\ UNCHANGED aborted

\* Wait::operator() (lazy.cc:153-159)
Watch(c) ==
    /\ Running /\ c \in Live
    /\ LET s == [Pack EXCEPT !.counter_ = @ + 1,
                             !.hist.watched = @ \cup {c}]
       IN  Commit(Impl_on_ready(s, c, OneReadyCb), "watch", c, 0, 0)
    /\ UNCHANGED <<ncells, aborted>>

\* the body of Wait::run (lazy.cc:165-169); the job records that it ran
Wait_run(s) ==
    LET n == Len(s.jobs_) + 1
        s1 == [s EXCEPT !.jobs_ = Append(@, n),
                        !.hist.jobruns = Append(@, 0)]
    IN  IF s1.counter_ = 0 THEN RunJobsFrom(s1, n) ELSE s1

\* Wait::run (lazy.cc:161-170).  The function returns Wait& and ends without a
\* return statement: after the body the call either comes back to the caller or
\* the program traps.
Run(traps) ==
    /\ Running
    /\ Commit(Wait_run(Pack), "run", 0, 0, 0)
    /\ aborted' = traps
    /\ UNCHANGED ncells

Next ==
    \/ New
    \/ \E v \in Values : NewValue(v)
    \/ \E c \in Cells : Get(c)
    \/ \E c \in Cells : OnReady(c)
    \/ \E c \in Cells : OnFail(c)
    \/ \E c \in Cells : EmitReady(c)
    \/ \E c \in Cells : EmitFail(c)
    \/ \E c \in Cells, v \in Values : Assign(c, v)
    \/ \E a \in Cells, b \in Cells : Plus(a, b)

Spec == Init /\ [][Next]_vars

\* the barrier with the futures it watches
NextWait ==
    \/ \E c \in Cells : Watch(c)
    \/ \E traps \in BOOLEAN : Run(traps)
    \/ \E c \in Cells : EmitReady(c)
    \/ \E c \in Cells : EmitFail(c)
    \/ \E c \in Cells, v \in Values : Assign(c, v)

SpecWait == InitWait /\ [][NextWait]_vars

\* ======================================================================
\* The coroutine (lazy.cc:191-233) driven by main (lazy.cc:249-261).
\* ctl.dpc is where main is: "pre" before the macro, "if" inside the
\* swapcontext of the macro's condition, "block" in the block after the macro,
\* "tail" after it, "exit" once main has returned.  ctl.emit is the signal
\* invocation running on the main stack, ctl.emit.incont says that its slot i
\* is inside __async_continue.  ctl.rat is where the routine is: "idle" not
\* started, "run" executing its ctl.rk-th statement, "suspended" inside the
\* swapcontext of its ctl.rk-th await, "wake" resumed there and about to
\* return var.get(), "done" returned.

InitCo == CellInit(MaxCoSteps) /\ CoInit /\ routine \in Routines

SetCells(s) ==
    /\ state_' = s.state_
    /\ value_' = s.value_
    /\ ready_callbacks_' = s.ready_callbacks_
    /\ fail_callbacks_' = s.fail_callbacks_
    /\ hist' = s.hist
    /\ UNCHANGED <<ncells, counter_, jobs_, last>>

KeepCells ==
    UNCHANGED <<ncells, state_, value_, ready_callbacks_, fail_callbacks_,
                counter_, jobs_, hist, last>>

KeepContexts == UNCHANGED <<main_context, coroutine_context, return_context,
                            coroutine_finished>>

\* main is between two statements
DriverAtRest ==
    /\ ~aborted
    /\ ctl.active = "driver"
    /\ ctl.emit.cell = 0
    /\ ctl.dpc \in {"pre", "block", "tail"}

Note(op, c, v) == [cohist EXCEPT !.ops = Append(@, [op |-> op, cell |-> c, arg |-> v])]

\* faulty variant of IfBranch: the block and what follows it are exchanged
IfBranch_exchanged(cond) == IF cond # 0 THEN "block" ELSE "tail"

\* if (cond) {} else <block> (lazy.cc:232-233): where main goes on
IfBranch(cond) == IF cond # 0 THEN "tail" ELSE "block"

\* faulty variant of WaitResult: the value is not read from the future
WaitResult_unread(c) == [rejected |-> state_[c] # LAZY_READY, ret |-> 0]

\* return var.get() (lazy.cc:213)
WaitResult(c) == Lazy_get(c)

\* the first lines of Impl::emit_ready (lazy.cc:62) up to the signal invocation
BeginEmit(s, c) ==
    [s EXCEPT !.state_[c] = LAZY_READY,
              !.hist.emits[c] = @ + 1,
              !.hist.everReady[c] = TRUE,
              !.hist.resolved[c] = s.value_[c]]

\* ready_callbacks_.connect(callback) (lazy.cc:44)
Connect(s, c, cb) ==
    [s EXCEPT !.ready_callbacks_[c] = Append(@, cb),
              !.hist.rcalls[c] = Append(@, 0),
              !.hist.regReady[c] = Append(@, s.state_[c])]

\* the signal invocation that emit_ready starts (lazy.cc:63)
Emission(s, c) ==
    [cell |-> c, snap |-> s.ready_callbacks_[c], i |-> 1, v |-> s.value_[c],
     incont |-> FALSE]

\* coroutine_context names a frame in which the routine is now waiting
ContextLive(t) ==
    \/ coroutine_context.at = "entry" /\ t.rat = "idle"
    \/ /\ coroutine_context.at = "wait"
       /\ t.rat = "suspended"
       /\ t.rk = coroutine_context.k

\* what activating coroutine_context may do.  A live context goes on where it
\* was saved.  A context whose frame has been left is stale: activating it is
\* undefined, the program traps or goes on at the saved place with the stack
\* contents of now.
MayEnter(t, outcome) ==
    IF ContextLive(t) THEN outcome = "asif"
    ELSE outcome = "asif" => cohist.reentries < MaxReentries

\* the positions after coroutine_context has been activated
EnterRoutine(t, outcome) ==
    IF outcome = "trap" THEN t
    ELSE IF coroutine_context.at = "wait"
         THEN [t EXCEPT !.active = "routine", !.rat = "wake",
                        !.rk = coroutine_context.k,
                        !.got = SubSeq(@, 1, coroutine_context.k - 1)]
         ELSE [t EXCEPT !.active = "routine", !.rat = "run", !.rk = 1,
                        !.got = <<>>]

Reentered(t, h) ==
    IF ContextLive(t) THEN h ELSE [h EXCEPT !.reentries = @ + 1]

\* ---- statements of main

\* Lazy::on_ready with a user callback, by main
CoOnReady(c) ==
    /\ DriverAtRest /\ steps > 0 /\ c \in Globals
    /\ SetCells(Impl_on_ready(Pack, c, UserCb))
    /\ cohist' = Note("on_ready", c, 0)
    /\ steps' = steps - 1
    /\ KeepContexts
    /\ UNCHANGED <<routine, ctl, aborted>>

\* Lazy::operator=(const T&) by main: the assert, the store and emit_ready up
\* to the signal invocation (lazy.cc:124-131, 60-63)
CoAssign(c, v) ==
    /\ DriverAtRest /\ steps > 0 /\ c \in Globals
    /\ steps' = steps - 1
    /\ cohist' = Note("assign", c, v)
    /\ KeepContexts
    /\ UNCHANGED routine
    /\ IF state_[c] = LAZY_NOT_READY
       THEN LET s == BeginEmit(Direct([Pack EXCEPT !.value_[c] = v], c), c)
            IN  /\ SetCells(s)
                /\ ctl' = [ctl EXCEPT !.emit = Emission(s, c)]
                /\ UNCHANGED aborted
       ELSE /\ aborted' = TRUE
            /\ KeepCells
            /\ UNCHANGED ctl

\* Lazy::emit_ready by main, up to the signal invocation (lazy.cc:114-117, 60-63)
CoEmitReady(c) ==
    /\ DriverAtRest /\ steps > 0 /\ c \in Globals
    /\ steps' = steps - 1
    /\ cohist' = Note("emit_ready", c, 0)
    /\ KeepContexts
    /\ LET s == BeginEmit(Direct(Pack, c), c)
       IN  /\ SetCells(s)
           /\ ctl' = [ctl EXCEPT !.emit = Emission(s, c)]
    /\ UNCHANGED <<routine, aborted>>

\* Lazy::emit_fail by main (lazy.cc:119-122); no fail slot is connected here
CoEmitFail(c) ==
    /\ DriverAtRest /\ steps > 0 /\ c \in Globals
    /\ steps' = steps - 1
    /\ cohist' = Note("emit_fail", c, 0)
    /\ KeepContexts
    /\ SetCells(Impl_emit_fail(Direct(Pack, c), c))
    /\ UNCHANGED <<routine, ctl, aborted>>

\* START_COROUTINE_AND_RUN_ONCE (lazy.cc:218-232): the contexts are set up,
\* the condition of the if sets coroutine_finished and activates
\* coroutine_context
CoStart ==
    /\ DriverAtRest /\ ctl.dpc = "pre"
    /\ return_context' = ReturnContext
    /\ coroutine_context' = EntryContext
    /\ coroutine_finished' = 1
    /\ main_context' = IfContext
    /\ ctl' = [ctl EXCEPT !.active = "routine", !.dpc = "if", !.rat = "run", !.rk = 1]
    /\ cohist' = [Note("start", 0, 0) EXCEPT
                     !.xfer = [via |-> "start", from |-> "driver", live |-> TRUE,
                               rat |-> "idle", cell |-> 0, awaited |-> 0, dropped |-> 0],
                     !.first = "running"]
    /\ KeepCells
    /\ UNCHANGED <<routine, aborted, steps>>

\* main reaches the end of the block after the macro (lazy.cc:258)
CoLeaveBlock ==
    /\ DriverAtRest /\ ctl.dpc = "block"
    /\ ctl' = [ctl EXCEPT !.dpc = "tail"]
    /\ cohist' = Note("leave", 0, 0)
    /\ KeepCells /\ KeepContexts
    /\ UNCHANGED <<routine, aborted, steps>>

\* return 0 (lazy.cc:260)
CoExit ==
    /\ DriverAtRest /\ ctl.dpc = "tail"
    /\ ctl' = [ctl EXCEPT !.dpc = "exit"]
    /\ cohist' = Note("exit", 0, 0)
    /\ KeepCells /\ KeepContexts
    /\ UNCHANGED <<routine, aborted, steps>>

\* ---- the signal invocation on the main stack (lazy.cc:63)

InEmission ==
    /\ ~aborted
    /\ ctl.active = "driver"
    /\ ctl.emit.cell # 0
    /\ ~ctl.emit.incont

\* the next slot is a user callback
CoInvokeUser ==
    /\ InEmission
    /\ ctl.emit.i <= Len(ctl.emit.snap)
    /\ ctl.emit.snap[ctl.emit.i].kind = "user"
    /\ SetCells(InvokeReady(Pack, ctl.emit.cell, ctl.emit.i, UserCb, ctl.emit.v, 1))
    /\ ctl' = [ctl EXCEPT !.emit.i = @ + 1]
    /\ KeepContexts
    /\ UNCHANGED <<routine, aborted, steps, cohist>>

\* the next slot is __async_continue (lazy.cc:194-200): main_context is saved
\* and coroutine_context activated, whatever the routine is doing
CoInvokeContinue(outcome) ==
    /\ InEmission
    /\ ctl.emit.i <= Len(ctl.emit.snap)
    /\ ctl.emit.snap[ctl.emit.i].kind = "async_continue"
    /\ MayEnter(ctl, outcome)
    /\ main_context' = ContinueContext("driver", ctl.emit.i)
    /\ ctl' = EnterRoutine([ctl EXCEPT !.emit.incont = TRUE], outcome)
    /\ aborted' = (outcome = "trap")
    /\ cohist' = [Reentered(ctl, cohist) EXCEPT
                     !.xfer = [via |-> "continue", from |-> "driver",
                               live |-> ContextLive(ctl), rat |-> ctl.rat,
                               cell |-> ctl.emit.cell,
                               awaited |-> IF ctl.rat = "suspended"
                                           THEN routine[ctl.rk] ELSE 0,
                               dropped |-> 0],
                     !.resumes = @ + 1]
    /\ SetCells([Pack EXCEPT !.hist = NoteCall(Pack, "ready", ctl.emit.cell, ctl.emit.i)])
    /\ UNCHANGED <<routine, steps, coroutine_context, return_context, coroutine_finished>>

\* every slot has been called: emit_ready returns to the statement of main
CoEmitReturn ==
    /\ InEmission
    /\ ctl.emit.i > Len(ctl.emit.snap)
    /\ ctl' = [ctl EXCEPT !.emit = NoEmit]
    /\ KeepCells /\ KeepContexts
    /\ UNCHANGED <<routine, aborted, steps, cohist>>

\* ---- the routine

InRoutine == ~aborted /\ ctl.active = "routine"

\* the positions after main_context has been activated by the routine's
\* k-th await.  IfContext goes on in the macro's condition with swapcontext
\* returning 0; a ContinueContext of the main stack returns into the signal
\* invocation.  Any other context is one whose frame has been left.
EnterMain(t) ==
    CASE main_context.at = "if" /\ t.dpc = "if"
           -> [t EXCEPT !.active = "driver", !.dpc = IfBranch(0)]
      [] /\ main_context.at = "continue" /\ main_context.side = "driver"
         /\ t.emit.cell # 0 /\ t.emit.incont /\ t.emit.i = main_context.k
           -> [t EXCEPT !.active = "driver", !.emit.incont = FALSE, !.emit.i = @ + 1]
      [] OTHER -> t

MainLive(t) == EnterMain(t) # t

\* __do_async_wait (lazy.cc:202-209): on_ready connects __async_continue and,
\* on a future that is Ready, calls it at once on the routine's stack
\* (lazy.cc:46-48); otherwise the routine saves coroutine_context and activates
\* main_context
CoAwait(outcome) ==
    /\ InRoutine /\ ctl.rat = "run" /\ ctl.rk <= Len(routine)
    /\ LET c == routine[ctl.rk]
           n == Len(cohist.calls) + 1
           s == Connect(Pack, c, AsyncContinueCb)
           call == [k |-> ctl.rk, cell |-> c, ready |-> state_[c] = LAZY_READY,
                    returns |-> 0, val |-> 0]
           h == [cohist EXCEPT !.calls = Append(@, call)]
       IN  IF state_[c] = LAZY_READY
           THEN /\ MayEnter(ctl, outcome)
                /\ main_context' = ContinueContext("routine", ctl.rk)
                /\ ctl' = EnterRoutine(ctl, outcome)
                /\ aborted' = (outcome = "trap")
                /\ cohist' = [Reentered(ctl, h) EXCEPT
                                 !.xfer = [via |-> "continue", from |-> "routine",
                                           live |-> FALSE, rat |-> ctl.rat,
                                           cell |-> c, awaited |-> 0, dropped |-> 0],
                                 !.first = IF @ = "running" THEN "reentered" ELSE @]
                /\ SetCells([s EXCEPT !.hist =
                                NoteCall(s, "ready", c, Len(s.ready_callbacks_[c]))])
                /\ UNCHANGED coroutine_context
           ELSE /\ outcome = "asif"
                /\ coroutine_context' = WaitContext(ctl.rk, n)
                /\ LET t == [ctl EXCEPT !.rat = "suspended"]
                   IN  /\ ctl' = EnterMain(t)
                       /\ aborted' = ~MainLive(t)
                       /\ cohist' = [h EXCEPT
                              !.xfer = [via |-> "await", from |-> "routine",
                                        live |-> MainLive(t), rat |-> ctl.rat,
                                        cell |-> c, awaited |-> c, dropped |-> 0],
                              !.suspends = @ + 1,
                              !.blocks = IF EnterMain(t).dpc = "block" /\ t.dpc # "block"
                                         THEN @ + 1 ELSE @,
                              !.first = IF @ = "running" THEN "suspended" ELSE @]
                /\ SetCells(s)
                /\ UNCHANGED main_context
    /\ UNCHANGED <<routine, steps, return_context, coroutine_finished>>

\* the resumed __do_async_wait returns var.get() (lazy.cc:209-213)
CoWake ==
    /\ InRoutine /\ ctl.rat = "wake"
    /\ LET c == routine[ctl.rk]
           n == coroutine_context.n
           r == WaitResult(c)
       IN  IF r.rejected
           THEN /\ aborted' = TRUE
                /\ UNCHANGED <<ctl, cohist>>
           ELSE /\ ctl' = [ctl EXCEPT !.rat = "run", !.rk = @ + 1,
                                      !.got = Append(@, r.ret)]
                /\ cohist' = [cohist EXCEPT !.calls[n].returns = @ + 1,
                                            !.calls[n].val = r.ret]
                /\ UNCHANGED aborted
    /\ KeepCells /\ KeepContexts
    /\ UNCHANGED <<routine, steps>>

\* the routine returns: uc_link activates return_context (lazy.cc:224, 229),
\* main goes on after getcontext with the frames above it gone and tests the
\* condition of the if again (lazy.cc:232).  coroutine_finished is non-zero
\* from CoStart on, so the condition is decided by its first operand.
CoEnd ==
    /\ InRoutine /\ ctl.rat = "run" /\ ctl.rk > Len(routine)
    /\ return_context.at = "return"
    /\ coroutine_finished # 0
    /\ ctl' = [ctl EXCEPT !.active = "driver", !.rat = "done", !.emit = NoEmit,
                          !.dpc = IfBranch(coroutine_finished)]
    /\ cohist' = [cohist EXCEPT
                     !.xfer = [via |-> "end", from |-> "routine", live |-> TRUE,
                               rat |-> ctl.rat, cell |-> ctl.emit.cell, awaited |-> 0,
                               dropped |-> Len(ctl.emit.snap) - ctl.emit.i],
                     !.blocks = IF IfBranch(coroutine_finished) = "block"
                                THEN @ + 1 ELSE @,
                     !.first = IF @ = "running" THEN "ended" ELSE @]
    /\ KeepCells /\ KeepContexts
    /\ UNCHANGED <<routine, aborted, steps>>

NextCo ==
    \/ \E c \in Cells : CoOnReady(c)
    \/ \E c \in Cells, v \in CoValues : CoAssign(c, v)
    \/ \E c \in Cells : CoEmitReady(c)
    \/ \E c \in Cells : CoEmitFail(c)
    \/ CoStart
    \/ CoLeaveBlock
    \/ CoExit
    \/ CoInvokeUser
    \/ \E outcome \in {"asif", "trap"} : CoInvokeContinue(outcome)
    \/ CoEmitReturn
    \/ \E outcome \in {"asif", "trap"} : CoAwait(outcome)
    \/ CoWake
    \/ CoEnd

SpecCo == InitCo /\ [][NextCo]_vars

\* ======================================================================
\* Properties

UserSlots(c) == {i \in 1..Len(ready_callbacks_[c]) : ready_callbacks_[c][i].kind = "user"}
IsPlus(r) == hist.plus[r] # <<>>
Lhs(r) == hist.plus[r][1]
Rhs(r) == hist.plus[r][2]

\* C1: once a cell is Ready or Failed it stays in that same state: no step
\* changes the state of a terminal cell.
C1_TerminalIsPermanent ==
    [][\A c \in Cells : state_[c] # LAZY_NOT_READY => state_'[c] = state_[c]]_vars

\* C2: once a cell is Ready its stored value never changes: no step changes
\* the value_ of a cell that is Ready.
C2_ValueImmutableOnceReady ==
    [][\A c \in Cells : state_[c] = LAZY_READY => value_'[c] = value_[c]]_vars

\* C3: operator=, emit_ready or emit_fail on a cell that is already terminal is
\* rejected, leaves every state and value unchanged and invokes no callback.
C3_SecondResolutionRejected ==
    [][\A c \in Cells :
          (/\ state_[c] # LAZY_NOT_READY
           /\ last'.cell = c
           /\ last'.op \in {"assign", "emit_ready", "emit_fail"})
          => (/\ last'.rejected
              /\ state_' = state_ /\ value_' = value_
              /\ last'.trace = <<>>)]_vars

\* C4: a user ready-callback is never invoked more than once; it is invoked
\* only after its cell became Ready, it has been invoked once the cell is
\* Ready (inside on_ready when registered on a Ready cell), and every
\* invocation passes the value the cell was resolved with.
C4_ReadyCallbackExactlyOnce ==
    /\ \A c \in Cells : \A i \in UserSlots(c) :
          /\ hist.rcalls[c][i] <= 1
          /\ (hist.rcalls[c][i] >= 1 => hist.everReady[c])
          /\ (state_[c] = LAZY_READY => hist.rcalls[c][i] = 1)
          /\ (hist.regReady[c][i] = LAZY_READY => hist.rcalls[c][i] = 1)
    /\ \A k \in 1..Len(last.trace) :
          last.trace[k].sig = "ready"
          => last.trace[k].val = hist.resolved[last.trace[k].cell]

\* the invocations that emission number e of operation l made
CallsOf(l, e) ==
    LET ByE(t) == t.em = e IN SelectSeq(l.trace, ByE)

\* emission e of operation l invoked the slots of its list once each, in order
InOrder(l, e) ==
    LET E == l.ems[e]
        inv == CallsOf(l, e)
    IN  /\ Len(inv) = Len(E.snap)
        /\ \A k \in 1..Len(inv) :
              /\ inv[k].pos = k
              /\ inv[k].cell = E.cell
              /\ inv[k].sig = E.sig

\* C5: resolving a cell invokes the ready-callbacks registered on it before,
\* each once and in registration order, and failing it does so for the
\* fail-callbacks; the same holds for every emission a callback triggers.
C5_RegistrationOrder ==
    [][/\ \A e \in 1..Len(last'.ems) : InOrder(last', e)
       /\ \A c \in Cells :
             (last'.cell = c /\ ~last'.rejected /\ last'.op \in {"assign", "emit_ready"})
             => (last'.ems[1].cell = c /\ last'.ems[1].snap = ready_callbacks_[c])
       /\ \A c \in Cells :
             (last'.cell = c /\ last'.op = "emit_fail")
             => (last'.ems[1].cell = c /\ last'.ems[1].snap = fail_callbacks_[c])]_vars

\* C5 witness: a cell with several user ready-callbacks registered while
\* Pending has just been resolved, and they have been invoked first to last.
C5_Witness ==
    /\ last.op \in {"assign", "emit_ready"}
    /\ Len(last.ems) = 1
    /\ Len(last.ems[1].snap) = MaxSteps - 1
    /\ \A i \in 1..(MaxSteps - 1) :
          /\ ready_callbacks_[last.cell][i] = UserCb
          /\ hist.regReady[last.cell][i] = LAZY_NOT_READY
          /\ last.trace[i].pos = i
    /\ Len(last.trace) = MaxSteps - 1

\* C6: a cell failed with emit_fail while Pending has invoked every registered
\* fail-callback (one registered later inside on_fail) and never invokes a
\* ready-callback.
C6_FailedCellFiresOnlyFail ==
    \A c \in Cells :
        hist.failedPending[c]
        => /\ \A i \in 1..Len(fail_callbacks_[c]) : hist.fcalls[c][i] >= 1
           /\ \A i \in 1..Len(ready_callbacks_[c]) : hist.rcalls[c][i] = 0

\* C7: get() is rejected exactly when the cell is not Ready, and on a Ready
\* cell it returns the value the cell was resolved with.
C7_GetContract ==
    /\ \A c \in Live :
          /\ Lazy_get(c).rejected <=> state_[c] # LAZY_READY
          /\ ~Lazy_get(c).rejected => Lazy_get(c).ret = hist.resolved[c]
    /\ last.op = "get"
          => /\ last.rejected <=> state_[last.cell] # LAZY_READY
             /\ ~last.rejected => last.ret = hist.resolved[last.cell]

\* a cell that has had at most one resolution: at most one emission, begun at
\* most once (by a public entry point or by the composition that owns it)
Once(x) == hist.emits[x] <= 1 /\ hist.direct[x] + hist.begun[x] <= 1

\* C8: for r = a + b with a and b each resolved at most once and r resolved by
\* the composition only, r is Ready exactly when a and b both are, and its
\* value is then the sum of theirs.
C8_PlusResolvesToSum ==
    \A r \in Cells :
        (IsPlus(r) /\ Once(Lhs(r)) /\ Once(Rhs(r)) /\ hist.direct[r] = 0)
        => /\ state_[r] = LAZY_READY
                <=> (state_[Lhs(r)] = LAZY_READY /\ state_[Rhs(r)] = LAZY_READY)
           /\ state_[r] = LAZY_READY => value_[r] = value_[Lhs(r)] + value_[Rhs(r)]

\* C8 witness: a chain (a + a) + a built while a is Pending: when a is resolved
\* the final cell is Ready with the sum of all operands.
C8_Witness ==
    \E r \in Cells :
        /\ IsPlus(r) /\ IsPlus(Lhs(r))
        /\ Once(Lhs(r)) /\ Once(Rhs(r)) /\ hist.direct[r] = 0
        /\ hist.regReady[Lhs(Lhs(r))][1] = LAZY_NOT_READY
        /\ hist.regReady[Lhs(r)][1] = LAZY_NOT_READY
        /\ state_[r] = LAZY_READY
        /\ value_[r] = value_[Lhs(Lhs(r))] + value_[Rhs(Lhs(r))] + value_[Rhs(r)]
        /\ value_[r] >= 3

\* C9: step2 of r = a + b is registered on b only after a became Ready, and
\* once a has failed the composition never makes r Ready nor invokes a
\* ready-callback of r.
C9_WatchedAfterLhsAndNoResolveOnFail ==
    \A r \in Cells :
        IsPlus(r)
        => /\ (\E i \in 1..Len(ready_callbacks_[Rhs(r)]) :
                   ready_callbacks_[Rhs(r)][i] = Step2Cb(r))
                => hist.everReady[Lhs(r)]
           /\ (hist.failedPending[Lhs(r)] /\ hist.direct[r] = 0)
                => /\ state_[r] # LAZY_READY
                   /\ \A i \in 1..Len(ready_callbacks_[r]) : hist.rcalls[r][i] = 0

\* C10: no job of the barrier is executed at a moment when some watched future
\* has not become Ready.
C10_JobOnlyWhenAllWatchedReady ==
    \A k \in 1..Len(last.trace) :
        last.trace[k].sig = "job" => last.trace[k].nr = {}

\* the job runs that operation l made, as job indices in call order
JobCalls(l) ==
    LET IsJob(t) == t.sig = "job" IN SelectSeq(l.trace, IsJob)

\* C11: every job given to run is executed at most once in total, a job queued
\* while the count is 0 has run when run returns, a job has run once the count
\* has come down to 0, and the jobs one operation runs are run in queue order.
C11_JobExactlyOnce ==
    /\ \A j \in 1..Len(jobs_) : hist.jobruns[j] <= 1
    /\ (last.op = "run" /\ counter_ = 0) => hist.jobruns[Len(jobs_)] = 1
    /\ (last.op \in {"assign", "emit_ready"} /\ counter_ = 0 /\ JobCalls(last) # <<>>)
          => \A j \in 1..Len(jobs_) : hist.jobruns[j] = 1
    /\ \A k \in 1..(Len(JobCalls(last)) - 1) :
          JobCalls(last)[k].pos < JobCalls(last)[k + 1].pos

\* the watched futures that are still Pending, each counted as often as it
\* was given to the barrier
WatchesOf(c) ==
    Cardinality({i \in 1..Len(ready_callbacks_[c]) : ready_callbacks_[c][i] = OneReadyCb})
RECURSIVE PendingWatchesUpTo(_)
PendingWatchesUpTo(c) ==
    IF c = 0 THEN 0
    ELSE PendingWatchesUpTo(c - 1)
         + (IF state_[c] = LAZY_NOT_READY THEN WatchesOf(c) ELSE 0)

\* C12: counter_ is never negative and always equals the number of watched
\* futures that are still Pending.
C12_CounterIsPendingWatched ==
    /\ counter_ >= 0
    /\ counter_ = PendingWatchesUpTo(MaxCells)

\* ---- the coroutine

\* C13: control passes from main to the routine only by the start or by
\* __async_continue called by main while the routine waits in the context that
\* is activated, and from the routine to main only by an await or by the
\* routine's end; __async_continue is never called by the routine itself.
C13_TwoPartyHandoff ==
    LET x == cohist.xfer
    IN  /\ ctl.active \in {"driver", "routine"}
        /\ x.via \in {"start", "continue"} => x.from = "driver"
        /\ x.via \in {"await", "end"} => x.from = "routine"
        /\ x.via = "continue" => x.live

Stmt(op, c, v) == [op |-> op, cell |-> c, arg |-> v]

\* main has run START_COROUTINE_AND_RUN_ONCE on the routine x = await(cell 1);
\* y = await(cell 2) with both cells Pending and then the first n of the
\* statements cell 1 = 10; cell 2 = 5; and the last of them is over
TwoAwaits(n) ==
    /\ routine = <<1, 2>>
    /\ cohist.ops = SubSeq(<<Stmt("start", 0, 0), Stmt("assign", 1, 10),
                             Stmt("assign", 2, 5)>>, 1, n + 1)
    /\ ctl.active = "driver"
    /\ ctl.emit.cell = 0

\* C14: the routine x = await(A); y = await(B); result = x + y, started with A
\* and B Pending, is suspended in its second await after main has resolved A to
\* 10, and after main has then resolved B to 5 it has finished with x = 10,
\* y = 5 and result = 15, having been suspended twice and resumed twice.
C14_TwoAwaitsSum ==
    /\ TwoAwaits(0)
         => /\ ctl.rat = "suspended" /\ ctl.rk = 1 /\ ctl.dpc = "block"
            /\ cohist.suspends = 1 /\ cohist.resumes = 0
    /\ TwoAwaits(1)
         => /\ ctl.rat = "suspended" /\ ctl.rk = 2 /\ ctl.got = <<10>>
            /\ cohist.suspends = 2 /\ cohist.resumes = 1
    /\ TwoAwaits(2)
         => /\ ctl.rat = "done" /\ ~aborted
            /\ ctl.got = <<10, 5>>
            /\ ctl.got[1] + ctl.got[2] = 15
            /\ cohist.suspends = 2 /\ cohist.resumes = 2

\* C14 witness: main has resolved A to 10 and B to 5 and the routine has
\* finished with both values.
C14_Witness ==
    /\ TwoAwaits(2)
    /\ ctl.rat = "done"
    /\ ctl.got = <<10, 5>>

\* C15: __async_continue resumes a routine suspended in its await of F only
\* from the signal invocation of F itself, and once main has resolved F and
\* gone on to its next statement the routine is no longer suspended on F.
C15_ResumedOnlyByAwaited ==
    /\ (cohist.xfer.via = "continue" /\ cohist.xfer.rat = "suspended")
          => cohist.xfer.cell = cohist.xfer.awaited
    /\ (DriverAtRest /\ ctl.rat = "suspended")
          => state_[routine[ctl.rk]] # LAZY_READY

\* C16: coroutine_finished is 0 while the routine has not returned, and it is
\* non-zero only when the routine body has run to its end.
C16_FinishedOnlyAtEnd ==
    /\ ctl.rat \in {"run", "suspended", "wake"} => coroutine_finished = 0
    /\ coroutine_finished # 0 => ctl.rat = "done"

\* C17: __async_continue called when the routine has returned does not
\* activate the routine's context.
C17_FinishedNotResumed ==
    ~(cohist.xfer.via = "continue" /\ cohist.xfer.rat = "done")

\* C18: a resolve call of main returns to main: the routine's end never takes
\* control away from a signal invocation in progress, and when main is at its
\* next statement every user callback that was registered on a Ready cell
\* while the cell was Pending has been invoked.
C18_ResolveCallsEveryCallback ==
    /\ cohist.xfer.via = "end" => cohist.xfer.cell = 0
    /\ DriverAtRest
          => \A c \in Globals : \A i \in UserSlots(c) :
                (state_[c] = LAZY_READY /\ hist.regReady[c][i] = LAZY_NOT_READY)
                => hist.rcalls[c][i] >= 1

\* the calls of __do_async_wait that have not returned
OpenCalls == {n \in 1..Len(cohist.calls) : cohist.calls[n].returns = 0}

\* C19: every call of __do_async_wait returns at most once, with the value the
\* future was resolved with, and the routine makes no further call while one
\* has not returned; a call on a future that is already Ready does not call
\* __async_continue on the routine's own stack.
C19_AwaitReturnsOnce ==
    /\ \A n \in 1..Len(cohist.calls) :
          /\ cohist.calls[n].returns <= 1
          /\ cohist.calls[n].returns = 1
                => cohist.calls[n].val = hist.resolved[cohist.calls[n].cell]
    /\ Cardinality(OpenCalls) <= 1
    /\ ~(cohist.xfer.via = "continue" /\ cohist.xfer.from = "routine")

\* C20: the block after the macro is entered at most once, and it has been
\* entered exactly when the routine's first run ended in a suspension; a
\* routine that returned without suspending never gets the block executed, and
\* whenever the routine returns main goes on after the block.
C20_DriverBlockOnce ==
    /\ cohist.blocks <= 1
    /\ cohist.blocks = 1 <=> cohist.first = "suspended"
    /\ ctl.dpc = "block" => (cohist.blocks = 1 /\ ctl.rat # "done")
    /\ cohist.first = "ended" => ctl.dpc \in {"tail", "exit"}
    /\ cohist.xfer.via = "end"
          => (ctl.dpc \in {"tail", "exit"} /\ ctl.rat = "done")

\* C20 witness: the routine's first run was suspended, the block was entered
\* once, and the routine has returned during a resolve call of main, which
\* goes on after the block.
C20_Witness ==
    /\ cohist.blocks = 1
    /\ cohist.xfer.via = "end"
    /\ ctl.dpc = "tail"
    /\ cohist.xfer.cell # 0

====
